---------------------------- MODULE Spec2Model ----------------------------
(***************************************************************************)
(* Model of telegram_mdml.py: the validated value types, the historical    *)
(* collections and the projection of a parsed MDML document onto them.     *)
(*                                                                         *)
(* Text is a sequence of one-character strings.  An Optional[...] of the   *)
(* source is a set with at most one element: None is the empty set.        *)
(***************************************************************************)
EXTENDS Integers, Sequences, FiniteSets, TLC

VARIABLES
    arg,          \* the text handed to a value type's constructor
    self,         \* the value type instance constructed, or None
    doc,          \* TelegramEntity.doc: the parsed document
    values,       \* the list handed to HistoricalCollection.__init__
    self_values,  \* HistoricalCollection.values, the stored sequence
    pc,           \* the call that returned last
    flag,         \* allow_strikethrough of the last latest() call
    ret,          \* what the last call returned (None after a raise)
    raised        \* the exception that escaped the last call, or None

vars == <<arg, self, doc, values, self_values, pc, flag, ret, raised>>

----------------------------------------------------------------------------
(* Python values *)

None == {}
Some(x) == {x}
Get(o) == CHOOSE x \in o : TRUE

Return(x) == [raised |-> None, ret |-> Some(x)]
Raise(e) == [raised |-> Some(e), ret |-> None]

Last(s) == s[Len(s)]
Front(s) == SubSeq(s, 1, Len(s) - 1)
Reverse(s) == [i \in 1..Len(s) |-> s[Len(s) + 1 - i]]
Range(s) == {s[i] : i \in 1..Len(s)}

----------------------------------------------------------------------------
(* Bounds of the model *)

\* longest list handed to a HistoricalCollection
MaxLen == 3
\* dates run from datetime.min (0) to MaxDate
MaxDate == 2

\* datetime.min, the smallest datetime: the sort key of an undated value
DatetimeMin == 0

Dates == DatetimeMin..MaxDate

----------------------------------------------------------------------------
(* HistoricalValue and HistoricalCollection *)

HistoricalValue(value, date, details, is_strikethrough) ==
    [value |-> value, date |-> date, details |-> details,
     is_strikethrough |-> is_strikethrough]

\* key=lambda v: v.date if v.date else datetime.min  (a datetime is always truthy)
DateKey(v) == IF v.date # None THEN Get(v.date) ELSE DatetimeMin

\* list.sort's stable ascending order: v goes after every element whose key is <= its own
RECURSIVE Insort(_, _)
Insort(v, s) ==
    IF s = <<>> THEN <<v>>
    ELSE IF DateKey(v) < DateKey(Head(s)) THEN <<v>> \o s
    ELSE <<Head(s)>> \o Insort(v, Tail(s))

RECURSIVE SortAscending(_)
SortAscending(s) ==
    IF s = <<>> THEN <<>> ELSE Insort(Last(s), SortAscending(Front(s)))

\* the mutant of sorted_reverse: sort ascending, then reverse (ties come out reversed)
sorted_then_reversed(s) == Reverse(SortAscending(s))

\* sorted(s, key=DateKey, reverse=True): reverse, stable ascending sort, reverse;
\* elements with equal keys keep their input order
sorted_reverse(s) == Reverse(SortAscending(Reverse(s)))

IsDated(v) == v.date # None
IsUndated(v) == v.date = None
NotStrikethrough(v) == ~v.is_strikethrough

\* max(s, key=lambda v: v.date): the first element with the greatest date
RECURSIVE MaxByDate(_, _)
MaxByDate(s, best) ==
    IF s = <<>> THEN best
    ELSE MaxByDate(Tail(s),
                   IF Get(Head(s).date) > Get(best.date) THEN Head(s) ELSE best)

\* min(s, key=lambda v: v.date): the first element with the least date
RECURSIVE MinByDate(_, _)
MinByDate(s, best) ==
    IF s = <<>> THEN best
    ELSE MinByDate(Tail(s),
                   IF Get(Head(s).date) < Get(best.date) THEN Head(s) ELSE best)

\* the mutant of latest: the strikethrough filter is never applied
latest_unfiltered(vals, allow_strikethrough) ==
    LET with_dates == SelectSeq(vals, IsDated)
        without_dates == SelectSeq(vals, IsUndated)
    IN  IF vals = <<>> THEN None
        ELSE IF with_dates # <<>>
             THEN Some(MaxByDate(Tail(with_dates), Head(with_dates)))
        ELSE IF without_dates # <<>> THEN Some(without_dates[1]) ELSE None

\* the mutant of latest: the undated fallback takes the last candidate
latest_last_undated(vals, allow_strikethrough) ==
    LET candidates == IF allow_strikethrough THEN vals
                      ELSE SelectSeq(vals, NotStrikethrough)
        with_dates == SelectSeq(candidates, IsDated)
        without_dates == SelectSeq(candidates, IsUndated)
    IN  IF vals = <<>> THEN None
        ELSE IF candidates = <<>> THEN None
        ELSE IF with_dates # <<>>
             THEN Some(MaxByDate(Tail(with_dates), Head(with_dates)))
        ELSE IF without_dates # <<>> THEN Some(Last(without_dates)) ELSE None

latest(vals, allow_strikethrough) ==
    LET candidates == IF allow_strikethrough THEN vals
                      ELSE SelectSeq(vals, NotStrikethrough)
        with_dates == SelectSeq(candidates, IsDated)
        without_dates == SelectSeq(candidates, IsUndated)
    IN  IF vals = <<>> THEN None
        ELSE IF candidates = <<>> THEN None
        ELSE IF with_dates # <<>>
             THEN Some(MaxByDate(Tail(with_dates), Head(with_dates)))
        ELSE IF without_dates # <<>> THEN Some(without_dates[1]) ELSE None

\* the mutant of oldest: strikethrough values are left out, as latest() does by default
oldest_active_only(vals) ==
    LET candidates == SelectSeq(vals, NotStrikethrough)
        with_dates == SelectSeq(candidates, IsDated)
        without_dates == SelectSeq(candidates, IsUndated)
    IN  IF candidates = <<>> THEN None
        ELSE IF with_dates # <<>>
             THEN Some(MinByDate(Tail(with_dates), Head(with_dates)))
        ELSE IF without_dates # <<>> THEN Some(Last(without_dates)) ELSE None

oldest(vals) ==
    LET with_dates == SelectSeq(vals, IsDated)
        without_dates == SelectSeq(vals, IsUndated)
    IN  IF vals = <<>> THEN None
        ELSE IF with_dates # <<>>
             THEN Some(MinByDate(Tail(with_dates), Head(with_dates)))
        ELSE IF without_dates # <<>> THEN Some(Last(without_dates)) ELSE None

active(vals) == sorted_reverse(SelectSeq(vals, NotStrikethrough))

----------------------------------------------------------------------------
(* Inputs of the collection specification *)

\* payloads, one per document position
Payloads == <<<<"a">>, <<"b">>, <<"c">>, <<"d">>, <<"e">>>>

OptDates == {None} \cup {Some(d) : d \in Dates}

\* lists of n values: the i-th carries the i-th payload, any date, any flag
ValueLists(n) ==
    {[i \in 1..n |-> HistoricalValue(Payloads[i], m[i][1], None, m[i][2])] :
        m \in [1..n -> OptDates \X BOOLEAN]}

\* a document without any of the fields
NoDoc == [id |-> None, type |-> None,
          username |-> None, invite |-> None, status |-> None]

----------------------------------------------------------------------------
(* The collection on its own: construction from any list, then the queries *)

InitCollection ==
    /\ arg = <<>>
    /\ self = None
    /\ doc = NoDoc
    /\ \E n \in 0..MaxLen : values \in ValueLists(n)
    /\ self_values = <<>>
    /\ pc = "new"
    /\ flag = FALSE
    /\ ret = None
    /\ raised = None

\* HistoricalCollection.__init__(values)
Construct ==
    /\ pc = "new"
    /\ self_values' = sorted_reverse(values)
    /\ pc' = "__init__"
    /\ UNCHANGED <<arg, self, doc, values, flag, ret, raised>>

\* HistoricalCollection.latest(allow_strikethrough)
Latest ==
    /\ pc # "new"
    /\ \E allow_strikethrough \in BOOLEAN :
        /\ flag' = allow_strikethrough
        /\ ret' = latest(self_values, allow_strikethrough)
    /\ pc' = "latest"
    /\ UNCHANGED <<arg, self, doc, values, self_values, raised>>

\* HistoricalCollection.oldest()
Oldest ==
    /\ pc # "new"
    /\ ret' = oldest(self_values)
    /\ pc' = "oldest"
    /\ UNCHANGED <<arg, self, doc, values, self_values, flag, raised>>

\* HistoricalCollection.active()
Active ==
    /\ pc # "new"
    /\ ret' = Some(active(self_values))
    /\ pc' = "active"
    /\ UNCHANGED <<arg, self, doc, values, self_values, flag, raised>>

NextCollection == Construct \/ Latest \/ Oldest \/ Active

SpecCollection == InitCollection /\ [][NextCollection]_vars


----------------------------------------------------------------------------
(* Text: str methods and the regular expressions of the value types *)

UpperLetters == <<"A","B","C","D","E","F","G","H","I","J","K","L","M",
                  "N","O","P","Q","R","S","T","U","V","W","X","Y","Z">>
LowerLetters == <<"a","b","c","d","e","f","g","h","i","j","k","l","m",
                  "n","o","p","q","r","s","t","u","v","w","x","y","z">>
Digits == {"0","1","2","3","4","5","6","7","8","9"}

\* what str.strip() with no argument removes (the ASCII part)
Whitespace == {" ", "\t", "\n", "\r", "\f"}

RECURSIVE lstrip(_, _)
lstrip(s, chars) ==
    IF s # <<>> /\ Head(s) \in chars THEN lstrip(Tail(s), chars) ELSE s

RECURSIVE rstrip(_, _)
rstrip(s, chars) ==
    IF s # <<>> /\ Last(s) \in chars THEN rstrip(Front(s), chars) ELSE s

\* s.strip(chars)
strip(s, chars) == rstrip(lstrip(s, chars), chars)

\* the backquote character U+0060, which a TLA+ string cannot hold
Backtick == "BACKTICK"

\* value.strip(BACKTICK).strip(): backquotes off both ends first, then whitespace
strip_formatting(s) == strip(strip(s, {Backtick}), Whitespace)

LowerChar(c) ==
    IF \E i \in 1..26 : UpperLetters[i] = c
    THEN LowerLetters[CHOOSE i \in 1..26 : UpperLetters[i] = c]
    ELSE c

\* s.lower()
lower(s) == [i \in 1..Len(s) |-> LowerChar(s[i])]

\* s.startswith(prefix)
startswith(s, prefix) ==
    Len(s) >= Len(prefix) /\ SubSeq(s, 1, Len(prefix)) = prefix

\* sub in s
contains(s, sub) ==
    \E i \in 0..(Len(s) - Len(sub)) : SubSeq(s, i + 1, i + Len(sub)) = sub

\* s.replace(old, ''): every occurrence of old, left to right, is removed
RECURSIVE remove_all(_, _)
remove_all(s, old) ==
    IF s = <<>> THEN <<>>
    ELSE IF startswith(s, old)
         THEN remove_all(SubSeq(s, Len(old) + 1, Len(s)), old)
    ELSE <<Head(s)>> \o remove_all(Tail(s), old)

WordChars == Range(UpperLetters) \cup Range(LowerLetters) \cup Digits \cup {"_"}
HashChars == WordChars \cup {"-"}

AllIn(s, chars) == \A i \in 1..Len(s) : s[i] \in chars

\* re.match('^[...]{lo,hi}$', s): $ matches at the end of s, and also just
\* before a newline that ends s
re_match_class(s, chars, lo, hi) ==
    \/ Len(s) \in lo..hi /\ AllIn(s, chars)
    \/ /\ s # <<>> /\ Last(s) = "\n"
       /\ Len(s) - 1 \in lo..hi /\ AllIn(Front(s), chars)

UsernameMinLen == 5
UsernameMaxLen == 32

\* re.match(r'^[a-zA-Z0-9_]{5,32}$', s)
re_match_username(s) ==
    re_match_class(s, WordChars, UsernameMinLen, UsernameMaxLen)

\* re.match(r'^[a-zA-Z0-9_-]+$', s)
re_match_hash(s) ==
    \/ s # <<>> /\ AllIn(s, HashChars)
    \/ Len(s) >= 2 /\ Last(s) = "\n" /\ AllIn(Front(s), HashChars)

----------------------------------------------------------------------------
(* Exceptions *)

ExceptionBase ==
    [TelegramMDMLError    |-> "Exception",
     ValidationError      |-> "TelegramMDMLError",
     MissingFieldError    |-> "TelegramMDMLError",
     InvalidFieldError    |-> "TelegramMDMLError",
     InvalidUsernameError |-> "InvalidFieldError",
     InvalidInviteError   |-> "InvalidFieldError",
     InvalidStatusError   |-> "InvalidFieldError",
     InvalidTypeError     |-> "InvalidFieldError"]

\* whether an except clause naming cls catches an exception of class e
RECURSIVE isinstance(_, _)
isinstance(e, cls) ==
    \/ e = cls
    \/ e \in DOMAIN ExceptionBase /\ isinstance(ExceptionBase[e], cls)

----------------------------------------------------------------------------
(* The validated value types *)

At == <<"@">>
Plus == <<"+">>
TmePlus == <<"t",".","m","e","/","+">>
HttpsTme == <<"h","t","t","p","s",":","/","/","t",".","m","e","/">>
HttpTme == <<"h","t","t","p",":","/","/","t",".","m","e","/">>

\* UsernameValue(value, date, details, is_strikethrough) with its __post_init__
UsernameValue(value, date, details, is_strikethrough) ==
    LET stored == IF startswith(value, At) THEN Tail(value) ELSE value
    IN  IF ~re_match_username(stored)
        THEN Raise("InvalidUsernameError")
        ELSE Return(HistoricalValue(stored, date, details, is_strikethrough))

\* the mutant of with_at: the stored value as it is
with_at_plain(v) == v.value

\* UsernameValue.with_at
with_at(v) == At \o v.value

\* UsernameValue.__str__
str(v) == with_at(v)

\* the mutant of InviteValue: a raw hash is put after the domain without '+'
InviteValue_raw_without_plus(value, date, details, is_strikethrough) ==
    LET hash == IF startswith(value, HttpsTme \o Plus)
                THEN remove_all(value, HttpsTme \o Plus)
                ELSE IF startswith(value, HttpTme \o Plus)
                THEN remove_all(value, HttpTme \o Plus)
                ELSE IF startswith(value, Plus) THEN Tail(value)
                ELSE value
        url == IF startswith(value, HttpsTme \o Plus) THEN value
               ELSE IF startswith(value, HttpTme \o Plus) THEN value
               ELSE HttpsTme \o value
    IN  IF ~re_match_hash(hash)
        THEN Raise("InvalidInviteError")
        ELSE Return([value |-> url, date |-> date, details |-> details,
                     is_strikethrough |-> is_strikethrough, hash |-> hash])

\* InviteValue(value, date, details, is_strikethrough) with its __post_init__
InviteValue(value, date, details, is_strikethrough) ==
    LET hash == IF startswith(value, HttpsTme \o Plus)
                THEN remove_all(value, HttpsTme \o Plus)
                ELSE IF startswith(value, HttpTme \o Plus)
                THEN remove_all(value, HttpTme \o Plus)
                ELSE IF startswith(value, Plus) THEN Tail(value)
                ELSE value
        url == IF startswith(value, HttpsTme \o Plus) THEN value
               ELSE IF startswith(value, HttpTme \o Plus) THEN value
               ELSE IF startswith(value, Plus) THEN HttpsTme \o value
               ELSE HttpsTme \o Plus \o value
    IN  IF ~re_match_hash(hash)
        THEN Raise("InvalidInviteError")
        ELSE Return([value |-> url, date |-> date, details |-> details,
                     is_strikethrough |-> is_strikethrough, hash |-> hash])

\* InviteValue.url
url(v) == v.value

VALID_STATUSES ==
    {<<"a","c","t","i","v","e">>,
     <<"u","n","k","n","o","w","n">>,
     <<"b","a","n","n","e","d">>,
     <<"d","e","l","e","t","e","d">>,
     <<"i","d","_","m","i","s","m","a","t","c","h">>}

\* the mutant of StatusValue: the value is tested in lowercase but stored as
\* it was given
StatusValue_case_kept(value, date, details, is_strikethrough, reason, text) ==
    IF lower(value) \notin VALID_STATUSES
    THEN Raise("InvalidStatusError")
    ELSE Return([value |-> value, date |-> date, details |-> details,
                 is_strikethrough |-> is_strikethrough,
                 reason |-> reason, text |-> text])

\* StatusValue(value, date, details, is_strikethrough, reason, text) with its
\* __post_init__
StatusValue(value, date, details, is_strikethrough, reason, text) ==
    IF lower(value) \notin VALID_STATUSES
    THEN Raise("InvalidStatusError")
    ELSE Return([value |-> lower(value), date |-> date, details |-> details,
                 is_strikethrough |-> is_strikethrough,
                 reason |-> reason, text |-> text])

\* HistoricalCollection(values) and its subclasses: the object holds the
\* sorted list
HistoricalCollection(vals) == [values |-> sorted_reverse(vals)]

\* InviteCollection.get_hashes(allow_strikethrough), on the stored list
get_hashes(vals, allow_strikethrough) ==
    LET chosen == IF allow_strikethrough THEN vals ELSE active(vals)
    IN  [i \in 1..Len(chosen) |-> chosen[i].hash]

----------------------------------------------------------------------------
(* TelegramEntity: the projection of the document's fields *)

\* a FieldValue of the parsed document
FieldValue(value, datetime_obj, details, is_strikethrough, link_url, sub_items) ==
    [value |-> value, datetime_obj |-> datetime_obj, details |-> details,
     is_strikethrough |-> is_strikethrough, link_url |-> link_url,
     sub_items |-> sub_items]

\* Document.get_field(name): the Field, or None when the document has none
get_field(d, name) == d[name]

\* a dict is the set of its <<key, value>> pairs
HasKey(dict, key) == \E kv \in dict : kv[1] = key
Lookup(dict, key) == (CHOOSE kv \in dict : kv[1] = key)[2]

\* the mutant of usernames_loop: text without the leading @ is not skipped
RECURSIVE usernames_loop_no_skip(_, _)
usernames_loop_no_skip(items, usernames) ==
    IF items = <<>> THEN Return(usernames)
    ELSE LET field_value == Head(items)
             raw_value == strip_formatting(field_value.value)
             made == UsernameValue(raw_value, field_value.datetime_obj,
                                   field_value.details,
                                   field_value.is_strikethrough)
         IN  IF made.raised = None
             THEN usernames_loop_no_skip(Tail(items),
                                         Append(usernames, Get(made.ret)))
             ELSE usernames_loop_no_skip(Tail(items), usernames)

\* the mutant of usernames_loop: the except clause encloses the whole loop, so
\* the first invalid item ends the projection
RECURSIVE usernames_loop_field_level(_, _)
usernames_loop_field_level(items, usernames) ==
    IF items = <<>> THEN Return(usernames)
    ELSE LET field_value == Head(items)
             raw_value == strip_formatting(field_value.value)
             made == UsernameValue(raw_value, field_value.datetime_obj,
                                   field_value.details,
                                   field_value.is_strikethrough)
         IN  IF ~startswith(raw_value, At)
             THEN usernames_loop_field_level(Tail(items), usernames)
             ELSE IF made.raised = None
             THEN usernames_loop_field_level(Tail(items),
                                             Append(usernames, Get(made.ret)))
             ELSE Return(usernames)

\* the for loop of get_usernames over what is left of field.values
RECURSIVE usernames_loop(_, _)
usernames_loop(items, usernames) ==
    IF items = <<>> THEN Return(usernames)
    ELSE LET field_value == Head(items)
             raw_value == strip_formatting(field_value.value)
             made == UsernameValue(raw_value, field_value.datetime_obj,
                                   field_value.details,
                                   field_value.is_strikethrough)
         IN  IF ~startswith(raw_value, At)
             THEN usernames_loop(Tail(items), usernames)
             ELSE IF made.raised = None
             THEN usernames_loop(Tail(items), Append(usernames, Get(made.ret)))
             ELSE IF isinstance(Get(made.raised), "InvalidUsernameError")
             THEN usernames_loop(Tail(items), usernames)
             ELSE Raise(Get(made.raised))

\* the list get_usernames hands to UsernameCollection
usernames_of(d) ==
    LET field == get_field(d, "username")
    IN  IF field = None THEN Return(<<>>)
        ELSE usernames_loop(Get(field).values, <<>>)

\* the mutant of invite_raw_value: the raw text is preferred to the link target
invite_raw_value_text_first(field_value) ==
    IF field_value.value # <<>>
    THEN Some(strip_formatting(field_value.value))
    ELSE IF field_value.link_url # None /\ Get(field_value.link_url) # <<>>
    THEN field_value.link_url
    ELSE None

\* raw_value of get_invites: the link target when there is one, else the
\* stripped raw text, else None
invite_raw_value(field_value) ==
    IF field_value.link_url # None /\ Get(field_value.link_url) # <<>>
    THEN field_value.link_url
    ELSE IF field_value.value # <<>>
    THEN Some(strip_formatting(field_value.value))
    ELSE None

\* the for loop of get_invites over what is left of field.values
RECURSIVE invites_loop(_, _)
invites_loop(items, invites) ==
    IF items = <<>> THEN Return(invites)
    ELSE LET field_value == Head(items)
             raw_value == invite_raw_value(field_value)
             text == Get(raw_value)
             made == InviteValue(text, field_value.datetime_obj,
                                 field_value.details,
                                 field_value.is_strikethrough)
         IN  IF raw_value = None \/ raw_value = Some(<<>>)
             THEN invites_loop(Tail(items), invites)
             ELSE IF ~contains(text, TmePlus) /\ ~startswith(text, Plus)
             THEN invites_loop(Tail(items), invites)
             ELSE IF made.raised = None
             THEN invites_loop(Tail(items), Append(invites, Get(made.ret)))
             ELSE IF isinstance(Get(made.raised), "InvalidInviteError")
             THEN invites_loop(Tail(items), invites)
             ELSE Raise(Get(made.raised))

\* the list get_invites hands to InviteCollection
invites_of(d) ==
    LET field == get_field(d, "invite")
    IN  IF field = None THEN Return(<<>>)
        ELSE invites_loop(Get(field).values, <<>>)

\* the mutant of status_sub_item: text is read only beside a reason
status_sub_item_nested(field_value, key) ==
    IF field_value.sub_items # None /\ Get(field_value.sub_items) # {}
       /\ HasKey(Get(field_value.sub_items), "reason")
       /\ HasKey(Get(field_value.sub_items), key)
    THEN Some(strip_formatting(Lookup(Get(field_value.sub_items), key).value))
    ELSE None

\* reason and text of get_statuses: the stripped value of the sub-field key
\* when sub_items is non-empty and holds the key, else None
status_sub_item(field_value, key) ==
    IF field_value.sub_items # None /\ Get(field_value.sub_items) # {}
       /\ HasKey(Get(field_value.sub_items), key)
    THEN Some(strip_formatting(Lookup(Get(field_value.sub_items), key).value))
    ELSE None

\* the for loop of get_statuses over what is left of field.values
RECURSIVE statuses_loop(_, _)
statuses_loop(items, statuses) ==
    IF items = <<>> THEN Return(statuses)
    ELSE LET field_value == Head(items)
             raw_value == lower(strip_formatting(field_value.value))
             reason == status_sub_item(field_value, "reason")
             text == status_sub_item(field_value, "text")
             made == StatusValue(raw_value, field_value.datetime_obj,
                                 field_value.details,
                                 field_value.is_strikethrough, reason, text)
         IN  IF made.raised = None
             THEN statuses_loop(Tail(items), Append(statuses, Get(made.ret)))
             ELSE IF isinstance(Get(made.raised), "InvalidStatusError")
             THEN statuses_loop(Tail(items), statuses)
             ELSE Raise(Get(made.raised))

\* the list get_statuses hands to StatusCollection
statuses_of(d) ==
    LET field == get_field(d, "status")
    IN  IF field = None THEN Return(<<>>)
        ELSE statuses_loop(Get(field).values, <<>>)

----------------------------------------------------------------------------
(* TelegramEntity: the scalar fields and validate() *)

\* an exception raised with the message str(e) gives back
RaiseWith(e, message) == [raised |-> Some(e), ret |-> None, message |-> message]

\* Document.get_value(name): the field's single value, or None
get_value(d, name) == d[name]

DigitSeq == <<"0","1","2","3","4","5","6","7","8","9">>
DigitValue(c) == (CHOOSE i \in 1..10 : DigitSeq[i] = c) - 1

\* the digits of an integer literal, underscores passed over, read in base ten
RECURSIVE digits_value(_, _)
digits_value(s, acc) ==
    IF s = <<>> THEN acc
    ELSE IF Head(s) = "_" THEN digits_value(Tail(s), acc)
    ELSE digits_value(Tail(s), 10 * acc + DigitValue(Head(s)))

\* int(s) on ASCII text: whitespace off both ends, an optional sign, then
\* digits with single underscores allowed between them; else ValueError
int(s) ==
    LET t == strip(s, Whitespace)
        signed == t # <<>> /\ Head(t) \in {"+", "-"}
        body == IF signed THEN Tail(t) ELSE t
        wellformed ==
            /\ body # <<>>
            /\ AllIn(body, Digits \cup {"_"})
            /\ Head(body) # "_" /\ Last(body) # "_"
            /\ \A i \in 1..(Len(body) - 1) : ~(body[i] = "_" /\ body[i + 1] = "_")
        magnitude == digits_value(body, 0)
    IN  IF ~wellformed THEN Raise("ValueError")
        ELSE Return(IF signed /\ Head(t) = "-" THEN 0 - magnitude ELSE magnitude)

\* the mutant of get_id: unparsable text gives no identifier instead of raising
get_id_silent(d) ==
    LET value == get_value(d, "id")
        parsed == int(strip_formatting(Get(value).value))
    IN  IF value = None THEN Return(None)
        ELSE IF parsed.raised = None THEN Return(parsed.ret)
        ELSE Return(None)

\* TelegramEntity.get_id(): Optional[int]
get_id(d) ==
    LET value == get_value(d, "id")
        parsed == int(strip_formatting(Get(value).value))
    IN  IF value = None THEN Return(None)
        ELSE IF parsed.raised = None THEN Return(parsed.ret)
        ELSE IF isinstance(Get(parsed.raised), "ValueError")
        THEN RaiseWith("InvalidFieldError",
                       <<"Invalid ID format: ", Get(value).value>>)
        ELSE parsed

VALID_TYPES ==
    {<<"b","o","t">>, <<"u","s","e","r">>,
     <<"c","h","a","n","n","e","l">>, <<"g","r","o","u","p">>,
     <<"u","n","k","n","o","w","n">>}

MustBeOneOf == ". Must be one of: bot, channel, group, unknown, user"

\* the mutant of get_type: the text is compared without lowercasing
get_type_case_sensitive(d) ==
    LET value == get_value(d, "type")
        entity_type == strip_formatting(Get(value).value)
    IN  IF value = None
        THEN RaiseWith("MissingFieldError", <<"Field 'type' is required">>)
        ELSE IF entity_type \notin VALID_TYPES
        THEN RaiseWith("InvalidTypeError",
                       <<"Invalid type: ", entity_type, MustBeOneOf>>)
        ELSE Return(entity_type)

\* TelegramEntity.get_type(): str
get_type(d) ==
    LET value == get_value(d, "type")
        entity_type == lower(strip_formatting(Get(value).value))
    IN  IF value = None
        THEN RaiseWith("MissingFieldError", <<"Field 'type' is required">>)
        ELSE IF entity_type \notin VALID_TYPES
        THEN RaiseWith("InvalidTypeError",
                       <<"Invalid type: ", entity_type, MustBeOneOf>>)
        ELSE Return(entity_type)

NoIdentifier == "Entity has no identifier (id, username, or invite)"

\* an exception that none of the except clauses of a try block catches
escapes(r, classes) ==
    /\ r.raised # None
    /\ \A cls \in classes : ~isinstance(Get(r.raised), cls)

\* the mutant of validate: a present id field counts as an identifier even
\* when its text is not an integer
validate_id_field_counts(d) ==
    LET t == get_type(d)
        i == get_id(d)
        u == usernames_of(d)
        v == invites_of(d)
        type_warnings == IF t.raised = None THEN <<>> ELSE <<t.message>>
        id_warnings == IF i.raised = None THEN <<>> ELSE <<i.message>>
        has_id == get_value(d, "id") # None
        has_username == Len(Get(u.ret)) > 0
        has_invite == Len(Get(v.ret)) > 0
        identifier_warnings ==
            IF ~(has_id \/ has_username \/ has_invite)
            THEN <<<<NoIdentifier>>>> ELSE <<>>
    IN  IF escapes(t, {"MissingFieldError", "InvalidTypeError"}) THEN t
        ELSE IF escapes(i, {"InvalidFieldError"}) THEN i
        ELSE IF u.raised # None THEN u
        ELSE IF v.raised # None THEN v
        ELSE Return(type_warnings \o id_warnings \o identifier_warnings)

\* the mutant of validate: the id is looked at before the type
validate_id_first(d) ==
    LET t == get_type(d)
        i == get_id(d)
        u == usernames_of(d)
        v == invites_of(d)
        type_warnings == IF t.raised = None THEN <<>> ELSE <<t.message>>
        id_warnings == IF i.raised = None THEN <<>> ELSE <<i.message>>
        has_id == i.raised = None /\ Get(i.ret) # None
        has_username == Len(Get(u.ret)) > 0
        has_invite == Len(Get(v.ret)) > 0
        identifier_warnings ==
            IF ~(has_id \/ has_username \/ has_invite)
            THEN <<<<NoIdentifier>>>> ELSE <<>>
    IN  IF escapes(t, {"MissingFieldError", "InvalidTypeError"}) THEN t
        ELSE IF escapes(i, {"InvalidFieldError"}) THEN i
        ELSE IF u.raised # None THEN u
        ELSE IF v.raised # None THEN v
        ELSE Return(id_warnings \o type_warnings \o identifier_warnings)

\* TelegramEntity.validate(): List[str], the warnings in the order appended
validate(d) ==
    LET t == get_type(d)
        i == get_id(d)
        u == usernames_of(d)
        v == invites_of(d)
        type_warnings == IF t.raised = None THEN <<>> ELSE <<t.message>>
        id_warnings == IF i.raised = None THEN <<>> ELSE <<i.message>>
        has_id == i.raised = None /\ Get(i.ret) # None
        has_username == Len(Get(u.ret)) > 0
        has_invite == Len(Get(v.ret)) > 0
        identifier_warnings ==
            IF ~(has_id \/ has_username \/ has_invite)
            THEN <<<<NoIdentifier>>>> ELSE <<>>
    IN  IF escapes(t, {"MissingFieldError", "InvalidTypeError"}) THEN t
        ELSE IF escapes(i, {"InvalidFieldError"}) THEN i
        ELSE IF u.raised # None THEN u
        ELSE IF v.raised # None THEN v
        ELSE Return(type_warnings \o id_warnings \o identifier_warnings)

----------------------------------------------------------------------------
(* Inputs of the entity specification: documents *)

\* most items in a field's list
MaxItems == 2

Ticked(s) == <<Backtick>> \o s \o <<Backtick>>
Spaced(s) == <<" ">> \o s \o <<" ">>
Repeat(c, n) == [i \in 1..n |-> c]

\* date, details and strikethrough flag of an item
Metas ==
    {<<None, None, FALSE>>,
     <<Some(MaxDate), Some(<<"o","l","d">>), TRUE>>}

Valid123 == <<"v","a","l","i","d","1","2","3">>

\* raw texts of username items
UsernameTexts ==
    {Ticked(At \o Valid123),
     <<"n","o","t","a","h","a","n","d","l","e">>,
     <<"@","a","b","c">>,
     <<"@","t","e","-","s","t">>,
     <<"@","@","v","a","l","i","d">>,
     Spaced(Ticked(At \o Valid123)),
     Ticked(Spaced(<<"@","C","h","a","n","_","0","1">>)),
     At \o Repeat("a", UsernameMaxLen),
     At \o Repeat("a", UsernameMaxLen + 1)}

UsernameItems ==
    {FieldValue(t, m[1], m[2], m[3], None, None) :
        t \in UsernameTexts, m \in Metas}

Hash1 == <<"A","b","-","_","1">>
NotInviteUrl == <<"h","t","t","p","s",":","/","/","x",".","y">>

\* raw text and link target of invite items
InviteTexts ==
    {<<Ticked(HttpsTme \o Plus \o Hash1), None>>,
     <<<<"J","o","i","n">>, Some(HttpsTme \o Plus \o Hash1)>>,
     <<<<"J","o","i","n">>, Some(HttpTme \o Plus \o Hash1)>>,
     <<Ticked(Plus \o Hash1), None>>,
     <<Hash1, None>>,
     <<<<"s","e","e"," ">> \o TmePlus \o Hash1, None>>,
     <<Plus \o <<"A","b","!">>, None>>,
     <<<<>>, None>>,
     <<Plus \o Hash1, Some(<<>>)>>,
     <<Plus \o Hash1, Some(NotInviteUrl)>>}

InviteItems ==
    {FieldValue(t[1], m[1], m[2], m[3], t[2], None) :
        t \in InviteTexts, m \in Metas}

Sub(text) == [value |-> text]
ReasonSub == <<"reason", Sub(Ticked(<<"c","o","p","y">>))>>
TextSub == <<"text", Sub(<<" ","l","o","n","g"," ">>)>>
NoteSub == <<"note", Sub(<<"n">>)>>

\* raw text and sub-fields of status items
StatusTexts ==
    {<<Ticked(<<"a","c","t","i","v","e">>), None>>,
     <<Spaced(Ticked(<<"a","c","t","i","v","e">>)), None>>,
     <<<<"B","a","n","n","e","d">>, Some({ReasonSub, TextSub})>>,
     <<<<"b","a","n","n","e","d">>, Some({ReasonSub})>>,
     <<<<"d","e","l","e","t","e","d">>, Some({TextSub})>>,
     <<<<"g","o","n","e">>, Some({ReasonSub})>>,
     <<<<" ","I","D","_","M","I","S","M","A","T","C","H"," ">>, Some({})>>,
     <<<<"u","n","k","n","o","w","n">>, Some({NoteSub})>>}

StatusItems ==
    {FieldValue(t[1], m[1], m[2], m[3], None, t[2]) :
        t \in StatusTexts, m \in Metas}

\* a Field holding any list of at most MaxItems of the items
Fields(items) ==
    {[values |-> l] : l \in UNION {[1..n -> items] : n \in 0..MaxItems}}

Scalar(text) == FieldValue(text, None, None, FALSE, None, None)

\* raw texts of the id field
IdTexts ==
    {<<"1","2","3">>, Ticked(<<"4","2">>), <<"0","0","7">>, <<"0">>,
     Ticked(Spaced(<<"5">>)), Spaced(Ticked(<<"5">>)),
     <<"-","5">>, <<"+","5">>, <<"1","_","0">>, <<"1","_","_","0">>,
     <<"_","1">>, <<"1","2","a">>, <<"a","b","c">>, <<"-">>, <<>>}

\* raw texts of the type field
TypeTexts ==
    {<<"c","h","a","n","n","e","l">>, Ticked(<<"B","o","t">>),
     <<" ","G","R","O","U","P"," ">>, <<"u","s","e","r">>,
     <<"U","n","k","n","o","w","n">>, <<"r","o","b","o","t">>,
     Spaced(Ticked(<<"b","o","t">>)), <<>>}

\* an absent field, an empty one, one valid item, one invalid item
UsernameChoices ==
    {None} \cup
    {Some([values |-> l]) :
        l \in {<<>>, <<Scalar(At \o Valid123)>>, <<Scalar(<<"@","a","b","c">>)>>}}

InviteChoices ==
    {None} \cup
    {Some([values |-> l]) :
        l \in {<<>>, <<Scalar(Plus \o Hash1)>>, <<Scalar(<<>>)>>}}

\* documents with the scalar fields and the identifying fields together
ScalarDocs ==
    {[id |-> i, type |-> t, username |-> u, invite |-> v, status |-> None] :
        i \in {None} \cup {Some(Scalar(x)) : x \in IdTexts},
        t \in {None} \cup {Some(Scalar(x)) : x \in TypeTexts},
        u \in UsernameChoices, v \in InviteChoices}

\* documents: those that vary one history field in full, and those that
\* combine the scalar fields with the identifying fields
Docs ==
    {NoDoc}
    \cup {[NoDoc EXCEPT !.username = Some(f)] : f \in Fields(UsernameItems)}
    \cup {[NoDoc EXCEPT !.invite = Some(f)] : f \in Fields(InviteItems)}
    \cup {[NoDoc EXCEPT !.status = Some(f)] : f \in Fields(StatusItems)}
    \cup ScalarDocs

----------------------------------------------------------------------------
(* The entity: built once from a document, then projected *)

InitEntity ==
    /\ arg = <<>>
    /\ self = None
    /\ doc \in Docs
    /\ values = <<>>
    /\ self_values = <<>>
    /\ pc = "entity"
    /\ flag = FALSE
    /\ ret = None
    /\ raised = None

\* what a projection leaves: the list made by the loop, the collection built
\* from it and returned, or the exception that escaped
Projected(name, made) ==
    /\ pc' = name
    /\ raised' = made.raised
    /\ values' = IF made.raised = None THEN Get(made.ret) ELSE values
    /\ self_values' = IF made.raised = None
                      THEN HistoricalCollection(Get(made.ret)).values
                      ELSE self_values
    /\ ret' = IF made.raised = None
              THEN Some(HistoricalCollection(Get(made.ret)))
              ELSE None
    /\ UNCHANGED <<arg, self, doc, flag>>

\* TelegramEntity.get_usernames()
GetUsernames ==
    /\ Projected("get_usernames", usernames_of(doc))

\* TelegramEntity.get_invites()
GetInvites ==
    /\ Projected("get_invites", invites_of(doc))

\* TelegramEntity.get_statuses()
GetStatuses ==
    /\ Projected("get_statuses", statuses_of(doc))

\* what a method that builds no collection leaves: its value or its exception
Returned(name, r) ==
    /\ pc' = name
    /\ raised' = r.raised
    /\ ret' = r.ret
    /\ UNCHANGED <<arg, self, doc, values, self_values, flag>>

\* TelegramEntity.get_id()
GetId ==
    /\ Returned("get_id", get_id(doc))

\* TelegramEntity.get_type()
GetType ==
    /\ Returned("get_type", get_type(doc))

\* TelegramEntity.validate()
Validate ==
    /\ Returned("validate", validate(doc))

NextEntity ==
    \/ GetUsernames
    \/ GetInvites
    \/ GetStatuses
    \/ GetId
    \/ GetType
    \/ Validate

SpecEntity == InitEntity /\ [][NextEntity]_vars

----------------------------------------------------------------------------
(* The value types: one constructed from a text, then read *)

Newline == <<"\n">>

\* names of the shortest valid length over letters, a digit and underscore
NameAlphabet == {"a", "Z", "7", "_"}
ShortNames == [1..UsernameMinLen -> NameAlphabet]

NameBodies ==
    {Repeat("a", UsernameMinLen - 1), Repeat("a", UsernameMinLen),
     Repeat("Z", UsernameMaxLen), Repeat("a", UsernameMaxLen + 1),
     <<"C","h","a","n","_","0","1">>, <<"t","e","-","s","t","s">>,
     <<"a","b"," ","c","d","e">>, <<>>}

\* texts for UsernameValue: with no, one or two leading '@', and with
\* nothing, a newline or another character after the name
UsernameArgs ==
    {p \o b \o x : p \in {<<>>, At, At \o At}, b \in NameBodies,
                   x \in {<<>>, Newline, <<"!">>}}
    \cup {p \o b : p \in {<<>>, At}, b \in ShortNames}

HashAlphabet == {"a", "Z", "0", "-", "_", "!", "\n"}

HashBodies ==
    {Hash1, <<>>, <<"a","/","b">>, <<"a"," ","b">>,
     <<"a","@","b">>, <<"a">> \o HttpsTme \o Plus \o <<"b">>,
     <<"a">> \o HttpTme \o Plus \o <<"b">>, Plus \o <<"a","b">>}
    \cup [1..2 -> HashAlphabet]

\* the accepted shapes: https URL, http URL, bare '+hash', raw hash
InviteShapes == {HttpsTme \o Plus, HttpTme \o Plus, Plus, <<>>}

InviteArgs == {p \o b : p \in InviteShapes, b \in HashBodies}

StatusArgs ==
    {<<"a","c","t","i","v","e">>, <<"A","c","t","i","v","e">>,
     <<"B","A","N","N","E","D">>, <<"d","e","l","e","t","e","d">>,
     <<"u","n","K","n","o","w","n">>,
     <<"I","d","_","M","i","s","m","a","t","c","h">>,
     <<"i","d","-","m","i","s","m","a","t","c","h">>,
     <<"g","o","n","e">>, <<"a","c","t","i","v">>,
     <<" ","a","c","t","i","v","e">>, <<"a","c","t","i","v","e","\n">>,
     Ticked(<<"a","c","t","i","v","e">>)}

Args == UsernameArgs \cup InviteArgs \cup StatusArgs

InitValues ==
    /\ arg \in Args
    /\ self = None
    /\ doc = NoDoc
    /\ values = <<>>
    /\ self_values = <<>>
    /\ pc = "value"
    /\ flag = FALSE
    /\ ret = None
    /\ raised = None

\* what a constructor leaves: the instance, or the exception of __post_init__
Built(name, r) ==
    /\ pc = "value"
    /\ pc' = name
    /\ self' = r.ret
    /\ ret' = r.ret
    /\ raised' = r.raised
    /\ UNCHANGED <<arg, doc, values, self_values, flag>>

\* what reading a property of the instance leaves
Read(name, v) ==
    /\ pc' = name
    /\ ret' = Some(v)
    /\ UNCHANGED <<arg, self, doc, values, self_values, flag, raised>>

\* UsernameValue(arg)
NewUsernameValue ==
    /\ Built("UsernameValue", UsernameValue(arg, None, None, FALSE))

\* InviteValue(arg)
NewInviteValue ==
    /\ Built("InviteValue", InviteValue(arg, None, None, FALSE))

\* StatusValue(arg)
NewStatusValue ==
    /\ Built("StatusValue", StatusValue(arg, None, None, FALSE, None, None))

IsUsername == pc \in {"UsernameValue", "with_at", "__str__"} /\ self # None
IsInvite == pc \in {"InviteValue", "url"} /\ self # None

\* UsernameValue.with_at
WithAt ==
    /\ IsUsername
    /\ Read("with_at", with_at(Get(self)))

\* str(UsernameValue)
Str ==
    /\ IsUsername
    /\ Read("__str__", str(Get(self)))

\* InviteValue.url
Url ==
    /\ IsInvite
    /\ Read("url", url(Get(self)))

NextValues ==
    \/ NewUsernameValue
    \/ NewInviteValue
    \/ NewStatusValue
    \/ WithAt
    \/ Str
    \/ Url

SpecValues == InitValues /\ [][NextValues]_vars

----------------------------------------------------------------------------
(* InviteCollection: built from a list of invites, then read *)

\* lists of n invites: the i-th is built from the i-th payload as a raw
\* hash, with any date and any flag
InviteLists(n) ==
    {[i \in 1..n |-> Get(InviteValue(Payloads[i], m[i][1], None, m[i][2]).ret)] :
        m \in [1..n -> OptDates \X BOOLEAN]}

InitInvites ==
    /\ arg = <<>>
    /\ self = None
    /\ doc = NoDoc
    /\ \E n \in 0..MaxLen : values \in InviteLists(n)
    /\ self_values = <<>>
    /\ pc = "new"
    /\ flag = FALSE
    /\ ret = None
    /\ raised = None

\* InviteCollection.get_hashes(allow_strikethrough)
GetHashes ==
    /\ pc # "new"
    /\ \E allow_strikethrough \in BOOLEAN :
        /\ flag' = allow_strikethrough
        /\ ret' = Some(get_hashes(self_values, allow_strikethrough))
    /\ pc' = "get_hashes"
    /\ UNCHANGED <<arg, self, doc, values, self_values, raised>>

NextInvites == Construct \/ Active \/ GetHashes

SpecInvites == InitInvites /\ [][NextInvites]_vars

----------------------------------------------------------------------------
(* Claims about HistoricalCollection, checked under SpecCollection *)

Constructed == pc # "new"

StoredIdx == DOMAIN self_values
DateOf(i) == Get(self_values[i].date)
MinIdx(S) == CHOOSE i \in S : \A j \in S : i <= j
MaxIdx(S) == CHOOSE i \in S : \A j \in S : j <= i

\* the positions latest() may answer with
CandidateIdx(allow) ==
    {i \in StoredIdx : allow \/ ~self_values[i].is_strikethrough}
DatedIdx(S) == {i \in S : IsDated(self_values[i])}

\* C1: in the stored order of a constructed collection every dated entry
\* precedes every undated entry, and the dates of the dated entries are
\* non-increasing from first to last.
C1_SortingInvariant ==
    Constructed =>
        /\ \A i, j \in StoredIdx :
              IsDated(self_values[i]) /\ IsUndated(self_values[j]) => i < j
        /\ \A i, j \in DatedIdx(StoredIdx) : i < j => DateOf(i) >= DateOf(j)

\* how far C1's defect reaches: without a value dated datetime.min the stored
\* order is as C1 says
C1_HoldsAboveDatetimeMin ==
    (\A i \in DOMAIN values : values[i].date # Some(DatetimeMin))
        => C1_SortingInvariant

\* C2: construction is a stable sort: the stored sequence is a rearrangement
\* of the input in which the undated values keep the relative order they had
\* in the input, whatever dated values are interleaved with them.
C2_StableAmongUndated ==
    Constructed =>
        /\ Len(self_values) = Len(values)
        /\ Range(self_values) = Range(values)
        /\ SelectSeq(self_values, IsUndated) = SelectSeq(values, IsUndated)

\* C2's case: two undated values with a dated one between them in the input
C2_Witness ==
    /\ Constructed
    /\ Len(values) = 3
    /\ IsUndated(values[1]) /\ IsDated(values[2]) /\ IsUndated(values[3])
    /\ Get(values[2].date) > DatetimeMin
    /\ self_values = <<values[2], values[1], values[3]>>

\* C3: latest(allow) takes every value as a candidate when allow is true and
\* the non-strikethrough ones otherwise; with a dated candidate it returns a
\* candidate of the greatest date, with only undated candidates the first of
\* them in stored order, and with no candidate nothing.
C3_LatestContract ==
    pc = "latest" =>
        LET C == CandidateIdx(flag)
            D == DatedIdx(C)
        IN  IF D # {}
            THEN \E i \in D : /\ ret = Some(self_values[i])
                              /\ \A j \in D : DateOf(j) <= DateOf(i)
            ELSE IF C # {} THEN ret = Some(self_values[MinIdx(C)])
            ELSE ret = None

\* C3's case: latest(False) passes over a newer strikethrough value
C3_Witness ==
    /\ pc = "latest" /\ ~flag /\ ret # None
    /\ IsDated(Get(ret))
    /\ \E i \in StoredIdx :
          /\ self_values[i].is_strikethrough
          /\ IsDated(self_values[i])
          /\ DateOf(i) > Get(Get(ret).date)
    /\ \E i \in StoredIdx :
          /\ ~self_values[i].is_strikethrough
          /\ IsUndated(self_values[i])

AllStrikethrough ==
    self_values # <<>> /\ \A i \in StoredIdx : self_values[i].is_strikethrough

\* C4 as stated: over a non-empty collection of strikethrough entries only,
\* latest(False) returns nothing and latest(True) returns the entry with the
\* maximum date; latest(False) never returns a strikethrough entry.
C4_Original ==
    pc = "latest" =>
        /\ (~flag /\ ret # None) => ~Get(ret).is_strikethrough
        /\ (AllStrikethrough /\ ~flag) => ret = None
        /\ (AllStrikethrough /\ flag) =>
              /\ ret # None
              /\ IsDated(Get(ret))
              /\ \A j \in DatedIdx(StoredIdx) : DateOf(j) <= Get(Get(ret).date)

\* C4 amended: over a non-empty collection of strikethrough entries only,
\* latest(False) returns nothing and latest(True) returns an entry with the
\* maximum date when some entry is dated, and the first entry of the stored
\* order when none is; latest(False) never returns a strikethrough entry.
C4_Amended ==
    pc = "latest" =>
        /\ (~flag /\ ret # None) => ~Get(ret).is_strikethrough
        /\ (AllStrikethrough /\ ~flag) => ret = None
        /\ (AllStrikethrough /\ flag) =>
              /\ ret # None
              /\ \E i \in StoredIdx : ret = Some(self_values[i])
              /\ DatedIdx(StoredIdx) # {} =>
                    /\ IsDated(Get(ret))
                    /\ \A j \in DatedIdx(StoredIdx) :
                          DateOf(j) <= Get(Get(ret).date)
              /\ DatedIdx(StoredIdx) = {} => ret = Some(self_values[1])

\* C4's case: latest(True) over strikethrough entries none of which is dated
C4_Witness ==
    /\ pc = "latest" /\ flag
    /\ AllStrikethrough
    /\ Len(self_values) >= 2
    /\ DatedIdx(StoredIdx) = {}
    /\ ret = Some(self_values[1])

\* C5: oldest() considers every value, strikethrough ones included: with a
\* dated value it returns a value of the least date, with none the last
\* undated value of the stored order, and on an empty collection nothing.
C5_OldestContract ==
    pc = "oldest" =>
        LET D == DatedIdx(StoredIdx)
        IN  IF D # {}
            THEN \E i \in D : /\ ret = Some(self_values[i])
                              /\ \A j \in D : DateOf(i) <= DateOf(j)
            ELSE IF StoredIdx # {} THEN ret = Some(self_values[MaxIdx(StoredIdx)])
            ELSE ret = None

\* C5's case: the oldest dated value is strikethrough and undated values are
\* stored after it
C5_Witness ==
    /\ pc = "oldest" /\ ret # None
    /\ Get(ret).is_strikethrough /\ IsDated(Get(ret))
    /\ \E i \in StoredIdx : ~self_values[i].is_strikethrough /\ IsDated(self_values[i])
    /\ IsUndated(Last(self_values))

\* C6: active() returns exactly the non-strikethrough values, each once,
\* dated values first in descending date and undated values last in document
\* order, and leaves the stored sequence as construction made it.
C6_ActiveContract ==
    pc = "active" =>
        LET a == Get(ret)
            idx == DOMAIN a
        IN  /\ Range(a) = {v \in Range(self_values) : ~v.is_strikethrough}
            /\ \A i, j \in idx : i # j => a[i] # a[j]
            /\ \A i, j \in idx : IsDated(a[i]) /\ IsUndated(a[j]) => i < j
            /\ \A i, j \in idx :
                  i < j /\ IsDated(a[i]) /\ IsDated(a[j])
                      => Get(a[i].date) >= Get(a[j].date)
            /\ SelectSeq(a, IsUndated)
                  = SelectSeq(SelectSeq(values, NotStrikethrough), IsUndated)
            /\ self_values = sorted_reverse(values)

\* how far C6's defect reaches: without a value dated datetime.min active()
\* is as C6 says
C6_HoldsAboveDatetimeMin ==
    (\A i \in DOMAIN values : values[i].date # Some(DatetimeMin))
        => C6_ActiveContract

----------------------------------------------------------------------------
(* Claims about the projections, checked under SpecEntity *)

\* the items of a field of the document, none when the field is absent
ItemsOf(name) == IF doc[name] = None THEN <<>> ELSE Get(doc[name]).values

MapSeq(Op(_), s) == [i \in 1..Len(s) |-> Op(s[i])]
Count(v, s) == Cardinality({i \in DOMAIN s : s[i] = v})
Rearranged(s, t) ==
    Len(s) = Len(t) /\ \A v \in Range(s) \cup Range(t) : Count(v, s) = Count(v, t)

\* the collection returned is the one built from the projected list
ReturnedCollection ==
    /\ raised = None
    /\ ret = Some([values |-> self_values])
    /\ Rearranged(self_values, values)

\* a handle: 5 to 32 characters, ASCII letters, digits and underscore only
ValidHandle(h) ==
    Len(h) \in UsernameMinLen..UsernameMaxLen /\ AllIn(h, WordChars)

IsHandleItem(fv) ==
    LET t == strip_formatting(fv.value)
    IN  startswith(t, At) /\ ValidHandle(Tail(t))

HandleOf(fv) ==
    [value |-> Tail(strip_formatting(fv.value)), date |-> fv.datetime_obj,
     details |-> fv.details, is_strikethrough |-> fv.is_strikethrough]

\* C7: get_usernames() holds exactly the items whose stripped text starts
\* with @ and whose remainder is a valid handle, each with its own date,
\* details and strikethrough flag; placeholders and invalid handles are left
\* out one by one.
C7_UsernamesProjection ==
    pc = "get_usernames" =>
        /\ ReturnedCollection
        /\ values = MapSeq(HandleOf, SelectSeq(ItemsOf("username"), IsHandleItem))

\* C7's case: a placeholder beside a real, struck-through handle
C7_Witness ==
    /\ pc = "get_usernames"
    /\ Len(ItemsOf("username")) = 2
    /\ ItemsOf("username")[1].value = <<"n","o","t","a","h","a","n","d","l","e">>
    /\ ItemsOf("username")[2].value = Ticked(At \o Valid123)
    /\ self_values = <<[value |-> Valid123, date |-> Some(MaxDate),
                        details |-> Some(<<"o","l","d">>),
                        is_strikethrough |-> TRUE]>>

\* an item whose construction as a value of its kind fails
InvalidUsernameItem(fv) ==
    /\ startswith(strip_formatting(fv.value), At)
    /\ UsernameValue(strip_formatting(fv.value), fv.datetime_obj, fv.details,
                     fv.is_strikethrough).raised # None

InvalidInviteItem(fv) ==
    LET raw_value == invite_raw_value(fv)
    IN  /\ raw_value # None
        /\ contains(Get(raw_value), TmePlus) \/ startswith(Get(raw_value), Plus)
        /\ InviteValue(Get(raw_value), fv.datetime_obj, fv.details,
                       fv.is_strikethrough).raised # None

InvalidStatusItem(fv) ==
    lower(strip_formatting(fv.value)) \notin VALID_STATUSES

ValidUsernameItem(fv) == ~InvalidUsernameItem(fv)
ValidInviteItem(fv) == ~InvalidInviteItem(fv)
ValidStatusItem(fv) == ~InvalidStatusItem(fv)

\* the document with the invalid items of a field deleted from its list
Cleaned(name, Valid(_)) ==
    IF doc[name] = None THEN doc
    ELSE [doc EXCEPT ![name] =
             Some([values |-> SelectSeq(Get(doc[name]).values, Valid)])]

\* C8: the three projections return a collection and let no exception
\* escape; an invalid item removes only itself, so the projected list is that
\* of the same list with the invalid items deleted, from which nothing but
\* placeholders is left out.
C8_PerItemDiscard ==
    /\ pc \in {"get_usernames", "get_invites", "get_statuses"} =>
          ReturnedCollection
    /\ pc = "get_usernames" =>
          LET clean == Cleaned("username", ValidUsernameItem)
          IN  /\ Some(values) = usernames_of(clean).ret
              /\ Len(values) = Len(SelectSeq(ItemsOf("username"), IsHandleItem))
    /\ pc = "get_invites" =>
          LET clean == Cleaned("invite", ValidInviteItem)
          IN  Some(values) = invites_of(clean).ret
    /\ pc = "get_statuses" =>
          LET clean == Cleaned("status", ValidStatusItem)
          IN  /\ Some(values) = statuses_of(clean).ret
              /\ Len(values) = Len(SelectSeq(ItemsOf("status"), ValidStatusItem))

\* C8's case: an invalid handle ahead of a valid one, which is kept
C8_Witness ==
    /\ pc = "get_usernames"
    /\ Len(ItemsOf("username")) = 2
    /\ InvalidUsernameItem(ItemsOf("username")[1])
    /\ IsHandleItem(ItemsOf("username")[2])
    /\ Len(self_values) = 1
    /\ raised = None

\* the text an invite item resolves to
ResolvedText(fv) ==
    IF fv.link_url # None /\ Get(fv.link_url) # <<>> THEN Get(fv.link_url)
    ELSE strip_formatting(fv.value)

InviteOf(fv) ==
    InviteValue(ResolvedText(fv), fv.datetime_obj, fv.details,
                fv.is_strikethrough)

IsInviteItem(fv) ==
    /\ contains(ResolvedText(fv), TmePlus) \/ startswith(ResolvedText(fv), Plus)
    /\ InviteOf(fv).raised = None

BuiltInvite(fv) == Get(InviteOf(fv).ret)

\* C9: get_invites() resolves each item to its link target when it has one
\* and to its stripped raw text otherwise, skips it when that text neither
\* contains t.me/+ nor starts with +, and otherwise includes the invite built
\* from that text with the item's date, details and strikethrough flag unless
\* validation fails.
C9_InvitesProjection ==
    pc = "get_invites" =>
        /\ ReturnedCollection
        /\ values = MapSeq(BuiltInvite, SelectSeq(ItemsOf("invite"), IsInviteItem))
        /\ \A i \in DOMAIN values :
              \E j \in DOMAIN ItemsOf("invite") :
                 LET fv == ItemsOf("invite")[j]
                 IN  /\ values[i].date = fv.datetime_obj
                     /\ values[i].details = fv.details
                     /\ values[i].is_strikethrough = fv.is_strikethrough

\* C9's case: a link target that is an invite wins over the raw text, and a
\* link target that is none hides a raw text that is one
C9_Witness ==
    /\ pc = "get_invites"
    /\ Len(ItemsOf("invite")) = 2
    /\ ItemsOf("invite")[1].link_url = Some(NotInviteUrl)
    /\ ItemsOf("invite")[1].value = Plus \o Hash1
    /\ ItemsOf("invite")[2].link_url = Some(HttpsTme \o Plus \o Hash1)
    /\ ItemsOf("invite")[2].value = <<"J","o","i","n">>
    /\ ItemsOf("invite")[2].is_strikethrough
    /\ Len(self_values) = 1
    /\ self_values[1].value = HttpsTme \o Plus \o Hash1
    /\ self_values[1].hash = Hash1
    /\ self_values[1].is_strikethrough

\* the stripped value of a sub-field, when the item has it
SubValue(fv, key) ==
    LET found == {kv \in UNION fv.sub_items : kv[1] = key}
    IN  IF found = {} THEN None
        ELSE Some(strip_formatting((CHOOSE kv \in found : TRUE)[2].value))

StatusOf(fv) ==
    [value |-> lower(strip_formatting(fv.value)), date |-> fv.datetime_obj,
     details |-> fv.details, is_strikethrough |-> fv.is_strikethrough,
     reason |-> SubValue(fv, "reason"), text |-> SubValue(fv, "text")]

\* C10: get_statuses() strips and lowercases each item's raw text and sets
\* reason and text to the stripped values of the sub-fields of those names,
\* each on its own and only when the key is there; the status carries them
\* with the item's date, details and strikethrough flag.
C10_StatusesProjection ==
    pc = "get_statuses" =>
        /\ ReturnedCollection
        /\ values = MapSeq(StatusOf, SelectSeq(ItemsOf("status"), ValidStatusItem))

\* C10's case: one status with reason and text, one with text alone
C10_Witness ==
    /\ pc = "get_statuses"
    /\ Len(values) = 2
    /\ values[1].value = <<"b","a","n","n","e","d">>
    /\ values[1].reason = Some(<<"c","o","p","y">>)
    /\ values[1].text = Some(<<"l","o","n","g">>)
    /\ values[2].value = <<"d","e","l","e","t","e","d">>
    /\ values[2].reason = None
    /\ values[2].text = Some(<<"l","o","n","g">>)
    /\ values[2].is_strikethrough

----------------------------------------------------------------------------
(* Claims about the scalar fields, checked under SpecEntity *)

\* the id text with the backquotes and the whitespace around it taken off
IdText == strip_formatting(Get(doc.id).value)

IsDigits(s) == s # <<>> /\ \A k \in DOMAIN s : s[k] \in Digits

\* the number a run of decimal digits writes
RECURSIVE DecimalValue(_)
DecimalValue(s) ==
    IF s = <<>> THEN 0 ELSE 10 * DecimalValue(Front(s)) + DigitValue(Last(s))

\* an integer literal: an optional sign, then digits in which every
\* underscore stands between two digits
Unsigned(s) == IF s # <<>> /\ s[1] \in {"+", "-"} THEN Tail(s) ELSE s
IsIntLiteral(s) ==
    LET b == Unsigned(s)
    IN  /\ b # <<>>
        /\ \A k \in DOMAIN b :
              \/ b[k] \in Digits
              \/ /\ b[k] = "_"
                 /\ k > 1 /\ k < Len(b)
                 /\ b[k - 1] \in Digits /\ b[k + 1] \in Digits
IntLiteralValue(s) ==
    LET b == Unsigned(s)
        m == DecimalValue(SelectSeq(b, LAMBDA c : c # "_"))
    IN  IF s[1] = "-" THEN 0 - m ELSE m

\* C11 as stated: get_id gives None without an id field, the integer for
\* decimal digits (backquotes stripped), and raises InvalidFieldError for any
\* other stripped text.
C11_GetIdDigitsOnly ==
    pc = "get_id" =>
        IF doc.id = None THEN raised = None /\ ret = Some(None)
        ELSE IF IsDigits(IdText)
        THEN raised = None /\ ret = Some(Some(DecimalValue(IdText)))
        ELSE raised = Some("InvalidFieldError") /\ ret = None

\* C11 amended: get_id gives None without an id field, the integer for any
\* text that is an integer literal once stripped (digits with an optional
\* sign and single underscores between digits), and raises InvalidFieldError,
\* never ValueError, for every other text.
C11_GetIdIntLiteral ==
    pc = "get_id" =>
        IF doc.id = None THEN raised = None /\ ret = Some(None)
        ELSE IF IsIntLiteral(IdText)
        THEN raised = None /\ ret = Some(Some(IntLiteralValue(IdText)))
        ELSE raised = Some("InvalidFieldError") /\ ret = None

\* a signed id has been read, and an unparsable one has raised
C11_Witness ==
    /\ pc = "get_id"
    /\ doc.id # None
    /\ \/ IdText = <<"-","5">> /\ ret = Some(Some(0 - 5))
       \/ IdText = <<"1","2","a">> /\ raised = Some("InvalidFieldError")

\* the type text with the backquotes and the whitespace around it taken off
TypeText == strip_formatting(Get(doc.type).value)

TypeNames ==
    {<<"b","o","t">>, <<"u","s","e","r">>, <<"c","h","a","n","n","e","l">>,
     <<"g","r","o","u","p">>, <<"u","n","k","n","o","w","n">>}

EqualIgnoringCase(a, b) ==
    /\ Len(a) = Len(b)
    /\ \A k \in DOMAIN a : LowerChar(a[k]) = LowerChar(b[k])

\* C12: get_type returns the lowercase name when the type text, backquotes
\* stripped, is bot, user, channel, group or unknown in any letter case;
\* every other present text raises InvalidTypeError; an absent field raises
\* MissingFieldError, which is neither an InvalidTypeError nor an
\* InvalidFieldError.
C12_GetType ==
    pc = "get_type" =>
        IF doc.type = None
        THEN /\ raised = Some("MissingFieldError") /\ ret = None
             /\ ~isinstance("MissingFieldError", "InvalidTypeError")
             /\ ~isinstance("MissingFieldError", "InvalidFieldError")
        ELSE IF \E n \in TypeNames : EqualIgnoringCase(TypeText, n)
        THEN /\ raised = None
             /\ \E n \in TypeNames :
                   EqualIgnoringCase(TypeText, n) /\ ret = Some(n)
        ELSE raised = Some("InvalidTypeError") /\ ret = None

\* a capitalised, backquoted name has been read as its lowercase form
C12_Witness ==
    /\ pc = "get_type"
    /\ doc.type # None
    /\ Get(doc.type).value = Ticked(<<"B","o","t">>)
    /\ ret = Some(<<"b","o","t">>)

----------------------------------------------------------------------------
(* Claims about the value types, checked under SpecValues *)

\* the constructor's text with at most one leading '@' taken off
ArgRest == IF arg # <<>> /\ arg[1] = "@" THEN Tail(arg) ELSE arg

NameChars == Range(UpperLetters) \cup Range(LowerLetters) \cup Digits \cup {"_"}

IsValidName(s) ==
    /\ Len(s) >= UsernameMinLen /\ Len(s) <= UsernameMaxLen
    /\ \A k \in DOMAIN s : s[k] \in NameChars

\* C13: UsernameValue strips at most one leading '@' and succeeds exactly
\* when the rest is 5 to 32 ASCII letters, digits and underscores, storing
\* that rest; otherwise it raises InvalidUsernameError and leaves no instance.
C13_UsernameRule ==
    pc = "UsernameValue" =>
        IF IsValidName(ArgRest)
        THEN raised = None /\ self # None /\ Get(self).value = ArgRest
        ELSE raised = Some("InvalidUsernameError") /\ self = None

\* C14: for every valid name, the handle built from '@' + name stores name,
\* and its with_at and its str() are '@' + name again.
C14_RoundTrip ==
    (arg # <<>> /\ arg[1] = "@" /\ IsValidName(Tail(arg))) =>
        /\ pc = "UsernameValue" =>
              raised = None /\ self # None /\ Get(self).value = Tail(arg)
        /\ pc \in {"with_at", "__str__"} =>
              ret = Some(arg) /\ Get(self).value = Tail(arg)

\* str() of a handle built from '@' and a mixed name has given the text back
C14_Witness ==
    /\ pc = "__str__"
    /\ arg = At \o <<"a","Z","7","_","a">>
    /\ ret = Some(arg)

IsValidHash(h) ==
    /\ h # <<>>
    /\ \A k \in DOMAIN h : h[k] \in NameChars \cup {"-"}

CanonicalUrl(h) == <<"h","t","t","p","s",":","/","/","t",".","m","e","/","+">> \o h

\* C15: for every valid hash h, InviteValue built from the https URL of h,
\* from '+' followed by h, and from h alone has the same url and hash: the
\* https URL of h, and h.
C15_Confluent ==
    pc = "InviteValue" =>
        \A h \in HashBodies :
            (IsValidHash(h) /\ arg \in {CanonicalUrl(h), <<"+">> \o h, h}) =>
                /\ raised = None /\ self # None
                /\ Get(self).value = CanonicalUrl(h)
                /\ Get(self).hash = h

\* a raw hash has been turned into the URL and the hash
C15_Witness ==
    /\ pc = "InviteValue"
    /\ arg = Hash1
    /\ self # None
    /\ Get(self).value = CanonicalUrl(Hash1)
    /\ Get(self).hash = Hash1

\* C16: every constructed InviteValue, whatever shape it was built from,
\* holds as value and url the text 'https://t.me/+' followed by its hash.
C16_CanonicalUrl ==
    /\ (pc = "InviteValue" /\ self # None) =>
           Get(self).value = CanonicalUrl(Get(self).hash)
    /\ pc = "url" => ret = Some(CanonicalUrl(Get(self).hash))

\* what follows the prefix of the shape the text has
DerivedHash ==
    LET after(n) == SubSeq(arg, n + 1, Len(arg))
    IN  IF startswith(arg, HttpsTme \o Plus) THEN after(Len(HttpsTme) + 1)
        ELSE IF startswith(arg, HttpTme \o Plus) THEN after(Len(HttpTme) + 1)
        ELSE IF startswith(arg, Plus) THEN after(1)
        ELSE arg

\* C17: InviteValue succeeds only with a hash that is non-empty and made of
\* ASCII letters, digits, '_' and '-'; any other character in the hash derived
\* from the text raises InvalidInviteError, whatever the shape.
C17_HashValidated ==
    pc = "InviteValue" =>
        /\ self # None => IsValidHash(Get(self).hash)
        /\ ~IsValidHash(DerivedHash) =>
              raised = Some("InvalidInviteError") /\ self = None

StatusNames ==
    {<<"a","c","t","i","v","e">>, <<"u","n","k","n","o","w","n">>,
     <<"b","a","n","n","e","d">>, <<"d","e","l","e","t","e","d">>,
     <<"i","d","_","m","i","s","m","a","t","c","h">>}

\* C18: StatusValue succeeds exactly when the lowercased text is active,
\* unknown, banned, deleted or id_mismatch, and stores the lowercased text;
\* otherwise it raises InvalidStatusError.
C18_StatusRule ==
    pc = "StatusValue" =>
        IF \E n \in StatusNames : EqualIgnoringCase(arg, n)
        THEN /\ raised = None /\ self # None
             /\ Get(self).value \in StatusNames
             /\ EqualIgnoringCase(arg, Get(self).value)
        ELSE raised = Some("InvalidStatusError") /\ self = None

\* C18, the entries of get_statuses(): each value is one of the names
C18_StatusEntries ==
    (pc = "get_statuses" /\ raised = None) =>
        \A k \in DOMAIN self_values : self_values[k].value \in StatusNames

\* a status given in capitals has been stored in lowercase
C18_Witness ==
    /\ pc = "StatusValue"
    /\ arg = <<"B","A","N","N","E","D">>
    /\ self # None
    /\ Get(self).value = <<"b","a","n","n","e","d">>

----------------------------------------------------------------------------
(* Claims about validate(), checked under SpecEntity *)

\* the list validate() returned
Warnings == Get(ret)

IsTypeWarning(m) == m[1] \in {"Field 'type' is required", "Invalid type: "}
IsIdWarning(m) == m[1] = "Invalid ID format: "
IsNoIdentifierWarning(m) ==
    m[1] = "Entity has no identifier (id, username, or invite)"

\* the place of a warning's kind in the report
Rank(m) == IF IsTypeWarning(m) THEN 1 ELSE IF IsIdWarning(m) THEN 2 ELSE 3

HasWarning(Kind(_)) == \E k \in DOMAIN Warnings : Kind(Warnings[k])

TypeIsValid ==
    doc.type # None /\ \E n \in TypeNames : EqualIgnoringCase(TypeText, n)
IdIsValid == doc.id # None /\ IsIntLiteral(IdText)

\* C19: validate() never raises; its list holds at most one type warning,
\* then at most one id-format warning, then at most one no-identifier warning,
\* in that order; the type warning is there exactly when the type is missing
\* or invalid, the id-format warning exactly when an id is present and is not
\* an integer (never when the id is missing); with a valid type and a valid
\* id the list is empty.
C19_ValidateReport ==
    pc = "validate" =>
        /\ raised = None /\ ret # None
        /\ \A k \in DOMAIN Warnings :
              \/ IsTypeWarning(Warnings[k])
              \/ IsIdWarning(Warnings[k])
              \/ IsNoIdentifierWarning(Warnings[k])
        /\ \A j, k \in DOMAIN Warnings :
              j < k => Rank(Warnings[j]) < Rank(Warnings[k])
        /\ HasWarning(IsTypeWarning) <=> ~TypeIsValid
        /\ HasWarning(IsIdWarning) <=> (doc.id # None /\ ~IdIsValid)
        /\ (TypeIsValid /\ IdIsValid) => Warnings = <<>>

\* a report with all three warnings
C19_Witness ==
    /\ pc = "validate"
    /\ Len(Warnings) = 3
    /\ IsTypeWarning(Warnings[1])
    /\ IsIdWarning(Warnings[2])
    /\ IsNoIdentifierWarning(Warnings[3])

NoIdentifierCount ==
    Cardinality({k \in DOMAIN Warnings : IsNoIdentifierWarning(Warnings[k])})

NoHandles == Len(Get(usernames_of(doc).ret)) = 0
NoInvites == Len(Get(invites_of(doc).ret)) = 0

\* C20 as stated: the no-identifier warning is there only when the id field
\* is absent and the handle history and the invite history are both empty,
\* and then exactly once; with an id present, or a valid handle or invite,
\* it is not there.
C20_OnlyWhenIdAbsent ==
    pc = "validate" =>
        IF doc.id = None /\ NoHandles /\ NoInvites
        THEN NoIdentifierCount = 1
        ELSE NoIdentifierCount = 0

\* C20 amended: the no-identifier warning is there, exactly once, when
\* get_id() gives no integer (the id field is absent, or its text is not an
\* integer) and the handle history and the invite history are both empty;
\* otherwise it is not there.
C20_OnlyWhenNoUsableId ==
    pc = "validate" =>
        IF ~IdIsValid /\ NoHandles /\ NoInvites
        THEN NoIdentifierCount = 1
        ELSE NoIdentifierCount = 0

\* an id that is present but is not an integer has been reported twice: as
\* an invalid id and as no identifier
C20_Witness ==
    /\ pc = "validate"
    /\ doc.id # None
    /\ ~IdIsValid
    /\ HasWarning(IsIdWarning)
    /\ NoIdentifierCount = 1

----------------------------------------------------------------------------
(* Claims about InviteCollection, checked under SpecInvites *)

\* the invites get_hashes() answers for, in stored order
Hashed == SelectSeq(self_values, LAMBDA v : flag \/ ~v.is_strikethrough)

DateOrdered(s) ==
    /\ \A i, j \in DOMAIN s : IsDated(s[i]) /\ IsUndated(s[j]) => i < j
    /\ \A i, j \in DOMAIN s :
          (IsDated(s[i]) /\ IsDated(s[j]) /\ i < j)
              => Get(s[i].date) >= Get(s[j].date)

\* get_hashes() gives one hash per invite it answers for: all of them with
\* the flag, the non-strikethrough ones without, in the order of the stored
\* sequence, which without the flag is also the order of active()
C21_HashesOfStored ==
    pc = "get_hashes" =>
        /\ ret = Some([i \in 1..Len(Hashed) |-> Hashed[i].hash])
        /\ ~flag => Hashed = active(self_values)
        /\ flag => Hashed = self_values

\* C21: get_hashes(False) gives the hashes of exactly the non-strikethrough
\* invites and get_hashes(True) those of all invites, one hash per invite,
\* each list in date order: dated invites first, most recent first, undated
\* invites last.
C21_GetHashes ==
    pc = "get_hashes" => C21_HashesOfStored /\ DateOrdered(Hashed)

\* how far C1's defect reaches into get_hashes(): without an invite dated
\* datetime.min the lists are in date order
C21_HoldsAboveDatetimeMin ==
    (\A i \in DOMAIN values : values[i].date # Some(DatetimeMin))
        => C21_GetHashes

----------------------------------------------------------------------------
(* Claims about text normalisation, checked under SpecEntity *)

\* the bare inner text: whitespace and backquotes taken off both ends,
\* whichever of the two is outside
Bare(s) == strip(strip(strip(s, Whitespace), {Backtick}), Whitespace)

BareSubItems(o) ==
    IF o = None THEN None
    ELSE Some({<<p[1], [value |-> Bare(p[2].value)]>> : p \in Get(o)})

BareValue(fv) ==
    [fv EXCEPT !.value = Bare(@), !.sub_items = BareSubItems(@)]

BareScalar(o) == IF o = None THEN None ELSE Some(BareValue(Get(o)))

BareField(o) ==
    IF o = None THEN None
    ELSE Some([values |-> [i \in DOMAIN Get(o).values |->
                              BareValue(Get(o).values[i])]])

\* the document with every interpreted text replaced by its bare inner text
BareDoc ==
    [id |-> BareScalar(doc.id), type |-> BareScalar(doc.type),
     username |-> BareField(doc.username), invite |-> BareField(doc.invite),
     status |-> BareField(doc.status)]

\* whether a call's outcome is that of r: same exception class, same value
SameOutcome(r) == raised = r.raised /\ ret = r.ret

\* C22: whatever backquotes and whitespace wrap the raw text of id, type,
\* username, invite, status, reason and text, in either nesting order, each
\* method answers as it does for the document holding the bare inner texts.
C22_ReducedToBareText ==
    /\ pc = "get_id" => SameOutcome(get_id(BareDoc))
    /\ pc = "get_type" => SameOutcome(get_type(BareDoc))
    /\ pc = "get_usernames" =>
          raised = None /\ values = Get(usernames_of(BareDoc).ret)
    /\ pc = "get_invites" =>
          raised = None /\ values = Get(invites_of(BareDoc).ret)
    /\ pc = "get_statuses" =>
          raised = None /\ values = Get(statuses_of(BareDoc).ret)

FieldTexts(o) ==
    IF o = None THEN {}
    ELSE {Get(o).values[i].value : i \in DOMAIN Get(o).values}
         \cup UNION {IF Get(o).values[i].sub_items = None THEN {}
                     ELSE {p[2].value : p \in Get(Get(o).values[i].sub_items)} :
                     i \in DOMAIN Get(o).values}

DocTexts ==
    (IF doc.id = None THEN {} ELSE {Get(doc.id).value})
    \cup (IF doc.type = None THEN {} ELSE {Get(doc.type).value})
    \cup FieldTexts(doc.username) \cup FieldTexts(doc.invite)
    \cup FieldTexts(doc.status)

\* whitespace stands outside the backquotes of t
HasOuterWhitespace(t) ==
    LET u == strip(t, Whitespace)
    IN  u # t /\ u # <<>> /\ (Head(u) = Backtick \/ Last(u) = Backtick)

\* how far C22 holds: when no raw text has whitespace outside its backquotes
C22_HoldsWithoutOuterWhitespace ==
    (\A t \in DocTexts : ~HasOuterWhitespace(t)) => C22_ReducedToBareText

----------------------------------------------------------------------------
(* Claims about date ties, checked under SpecCollection *)

InputIdx == DOMAIN values

\* the input positions latest() chooses among, and the dated ones of a set
InputCandidates == {i \in InputIdx : flag \/ ~values[i].is_strikethrough}
DatedInput(S) == {i \in S : IsDated(values[i])}

\* the first input position of S carrying the greatest, or the least, date
FirstWithMaxDate(S) ==
    MinIdx({i \in S : \A j \in S : Get(values[i].date) >= Get(values[j].date)})
FirstWithMinDate(S) ==
    MinIdx({i \in S : \A j \in S : Get(values[i].date) <= Get(values[j].date)})

SeveralShareMinDate ==
    \E i, j \in DatedInput(InputIdx) :
        /\ i # j
        /\ values[i].date = values[j].date
        /\ i = FirstWithMinDate(DatedInput(InputIdx))

\* among candidates that share the greatest date latest() gives the one that
\* came first in the input, and among values that share the least date
\* oldest() gives the one that came first in the input, which is not the
\* last dated element of the stored order
C23_TieBreak ==
    /\ (pc = "latest" /\ DatedInput(InputCandidates) # {}) =>
          ret = Some(values[FirstWithMaxDate(DatedInput(InputCandidates))])
    /\ (pc = "oldest" /\ DatedInput(InputIdx) # {}) =>
          /\ ret = Some(values[FirstWithMinDate(DatedInput(InputIdx))])
          /\ SeveralShareMinDate =>
                ret # Some(self_values[MaxIdx(DatedIdx(StoredIdx))])

\* C23: ties are resolved by document order as C23_TieBreak says, so
\* latest(True) on a non-empty collection is always the first stored element
\* and latest(False) is the first element of active().
C23_TiesByDocumentOrder ==
    /\ C23_TieBreak
    /\ (pc = "latest" /\ flag /\ self_values # <<>>) =>
          ret = Some(self_values[1])
    /\ (pc = "latest" /\ ~flag) =>
          ret = IF active(self_values) = <<>> THEN None
                ELSE Some(active(self_values)[1])

\* how far C1's defect reaches into C23: without a value dated datetime.min
\* latest() is the first stored element, or the first element of active()
C23_HoldsAboveDatetimeMin ==
    (\A i \in DOMAIN values : values[i].date # Some(DatetimeMin))
        => C23_TiesByDocumentOrder

=============================================================================
